---- MODULE Spec2Model ----
(***************************************************************************)
(* Weather_App (main_enc.py): the TTL cache (WeatherCache), the error      *)
(* classification (APIErrorHandler), the API wrapper (WeatherAPI) and the  *)
(* request dispatch of the GUI (EnhancedWeatherApp / EnhancedWeatherWorker)*)
(***************************************************************************)
EXTENDS Integers, Sequences, FiniteSets, TLC

VARIABLES now, ttl, cache, lastSet, lastOp,
          errIn, errOut,
          apiCall,
          city_input, units_combo, search_button, current_worker,
          workers, guiQueue, succeeded, appEvt

vars == <<now, ttl, cache, lastSet, lastOp, errIn, errOut, apiCall,
          city_input, units_combo, search_button, current_worker,
          workers, guiQueue, succeeded, appEvt>>

cacheVars == <<now, ttl, cache, lastSet, lastOp>>
errVars == <<errIn, errOut>>
apiVars == <<apiCall>>
appVars == <<city_input, units_combo, search_button, current_worker,
             workers, guiQueue, succeeded, appEvt>>

----------------------------------------------------------------------------
(* Bounds *)
MaxNow == 3
MaxTtl == 2

(* Python values *)
None == [t |-> "None"]
Some(v) == [t |-> "Some", v |-> v]

(* Strings are sequences of one-character strings. *)
CaseMap == [L |-> "l", O |-> "o", N |-> "n", Y |-> "y"]

LowerChar(c) == IF c \in DOMAIN CaseMap THEN CaseMap[c] ELSE c

UpperChar(c) ==
    IF \E u \in DOMAIN CaseMap : CaseMap[u] = c
    THEN CHOOSE u \in DOMAIN CaseMap : CaseMap[u] = c
    ELSE c

str_lower(s) == [i \in 1..Len(s) |-> LowerChar(s[i])]

str_upper(s) == [i \in 1..Len(s) |-> UpperChar(s[i])]

(* k1 and k2 differ at most in letter case *)
SameUpToCase(k1, k2) ==
    /\ Len(k1) = Len(k2)
    /\ \A i \in 1..Len(k1) :
          \/ k1[i] = k2[i]
          \/ UpperChar(k1[i]) = k2[i]
          \/ UpperChar(k2[i]) = k1[i]

Cities == { <<"L","o">>, <<"l","o">>, <<"L","O">>, <<"N","y">> }

Values == {"v1", "v2"}

(* dict helpers *)
DictPut(d, k, v) == [x \in (DOMAIN d) \cup {k} |-> IF x = k THEN v ELSE d[x]]

DictDel(d, k) == [x \in (DOMAIN d) \ {k} |-> d[x]]

EmptyDict == [x \in {} |-> None]

----------------------------------------------------------------------------
(* WeatherCache *)

WeatherCache_init(ttl_minutes) == [cache |-> EmptyDict, ttl |-> ttl_minutes]

(* get with the boundary included in the live range *)
WeatherCache_get_inclusive(c, city, t) ==
    IF str_lower(city) \in DOMAIN c
    THEN IF t <= c[str_lower(city)].expiry
         THEN [cache |-> c, ret |-> Some(c[str_lower(city)].data)]
         ELSE [cache |-> DictDel(c, str_lower(city)), ret |-> None]
    ELSE [cache |-> c, ret |-> None]

(* get that pushes the expiry forward on a hit *)
WeatherCache_get_refresh(c, city, t) ==
    IF str_lower(city) \in DOMAIN c
    THEN IF t < c[str_lower(city)].expiry
         THEN [cache |-> DictPut(c, str_lower(city),
                                 [data |-> c[str_lower(city)].data,
                                  expiry |-> c[str_lower(city)].expiry + 1]),
               ret |-> Some(c[str_lower(city)].data)]
         ELSE [cache |-> DictDel(c, str_lower(city)), ret |-> None]
    ELSE [cache |-> c, ret |-> None]

(* the store and the return value of get(city) at clock reading t *)
WeatherCache_get(c, city, t) ==
    IF str_lower(city) \in DOMAIN c
    THEN IF t < c[str_lower(city)].expiry
         THEN [cache |-> c, ret |-> Some(c[str_lower(city)].data)]
         ELSE [cache |-> DictDel(c, str_lower(city)), ret |-> None]
    ELSE [cache |-> c, ret |-> None]

(* set that keys the entry by the city as given *)
WeatherCache_set_rawkey(c, life, city, data, t) ==
    DictPut(c, city, [data |-> data, expiry |-> t + life])

(* set that keeps an existing entry *)
WeatherCache_set_keepold(c, life, city, data, t) ==
    IF str_lower(city) \in DOMAIN c
    THEN c
    ELSE DictPut(c, str_lower(city), [data |-> data, expiry |-> t + life])

(* set that stamps the entry with the clock alone *)
WeatherCache_set_nottl(c, life, city, data, t) ==
    DictPut(c, str_lower(city), [data |-> data, expiry |-> t])

(* the store after set(city, data) at clock reading t *)
WeatherCache_set(c, life, city, data, t) ==
    DictPut(c, str_lower(city), [data |-> data, expiry |-> t + life])

----------------------------------------------------------------------------
(* A WeatherCache driven directly: set, get and the passing of time. *)

NoOp == [op |-> "init", key |-> <<>>, val |-> None, ret |-> None,
         pre |-> EmptyDict, at |-> 0]

Evt(kind, w, call) == [kind |-> kind, w |-> w, call |-> call]

IdleErr == /\ errIn = None /\ errOut = None
IdleApi == apiCall = None
IdleApp == /\ city_input = <<>>
           /\ units_combo = "metric (C)"
           /\ search_button = TRUE
           /\ current_worker = 0
           /\ workers = <<>>
           /\ guiQueue = <<>>
           /\ succeeded = EmptyDict
           /\ appEvt = Evt("init", 0, None)

InitCache ==
    /\ now = 0
    /\ ttl \in 0..MaxTtl
    /\ cache = WeatherCache_init(ttl).cache
    /\ lastSet = EmptyDict
    /\ lastOp = NoOp
    /\ IdleErr /\ IdleApi /\ IdleApp

Set(k, v) ==
    /\ cache' = WeatherCache_set(cache, ttl, k, v, now)
    /\ lastSet' = DictPut(lastSet, str_upper(k),
                          [key |-> k, at |-> now, val |-> v,
                           prev |-> IF str_upper(k) \in DOMAIN lastSet
                                    THEN Some(lastSet[str_upper(k)].val)
                                    ELSE None])
    /\ lastOp' = [op |-> "set", key |-> k, val |-> Some(v), ret |-> None,
                  pre |-> cache, at |-> now]
    /\ UNCHANGED <<now, ttl>>
    /\ UNCHANGED <<errVars, apiVars, appVars>>

Get(k) ==
    /\ cache' = WeatherCache_get(cache, k, now).cache
    /\ lastOp' = [op |-> "get", key |-> k, val |-> None,
                  ret |-> WeatherCache_get(cache, k, now).ret,
                  pre |-> cache, at |-> now]
    /\ UNCHANGED <<now, ttl, lastSet>>
    /\ UNCHANGED <<errVars, apiVars, appVars>>

Tick ==
    /\ now < MaxNow
    /\ now' = now + 1
    /\ lastOp' = [op |-> "tick", key |-> <<>>, val |-> None, ret |-> None,
                  pre |-> cache, at |-> now]
    /\ UNCHANGED <<ttl, cache, lastSet>>
    /\ UNCHANGED <<errVars, apiVars, appVars>>

NextCache ==
    \/ \E k \in Cities, v \in Values : Set(k, v)
    \/ \E k \in Cities : Get(k)
    \/ Tick

SpecCache == InitCache /\ [][NextCache]_vars

----------------------------------------------------------------------------
(* Properties of the cache.  lastSet records, per case-insensitive key     *)
(* (folded to upper case), the most recent set: its key as given, its      *)
(* clock reading, its value and the value of the set before it.            *)

LastSetOf(k) == lastSet[str_upper(k)]

HasSet(k) == str_upper(k) \in DOMAIN lastSet

(* C1: with ttl > 0, set(k1, v) followed by get(k2), k1 and k2 equal up to *)
(* letter case, at a clock reading strictly before the entry's expiry      *)
(* returns v.                                                              *)
C1_SetThenGetReturnsValue ==
    (lastOp.op = "get" /\ ttl > 0) =>
        \A cls \in DOMAIN lastSet :
            (/\ SameUpToCase(lastSet[cls].key, lastOp.key)
             /\ lastOp.at < lastSet[cls].at + ttl)
            => lastOp.ret = Some(lastSet[cls].val)

C1_Witness ==
    /\ lastOp.op = "get"
    /\ ttl > 0
    /\ HasSet(lastOp.key)
    /\ LastSetOf(lastOp.key).key # lastOp.key
    /\ SameUpToCase(LastSetOf(lastOp.key).key, lastOp.key)
    /\ lastOp.at = LastSetOf(lastOp.key).at
    /\ lastOp.ret = Some(LastSetOf(lastOp.key).val)

(* C2: a get(k) executed at or after the expiry of k's stored entry        *)
(* (boundary included) returns None and leaves no entry under the          *)
(* normalized key.                                                         *)
C2_ExpiredGetEvicts ==
    (/\ lastOp.op = "get"
     /\ \E k \in DOMAIN lastOp.pre :
           /\ SameUpToCase(k, lastOp.key)
           /\ lastOp.at >= lastOp.pre[k].expiry)
    => /\ lastOp.ret = None
       /\ \A k \in DOMAIN cache : ~SameUpToCase(k, lastOp.key)

C2_Witness ==
    /\ lastOp.op = "get"
    /\ str_lower(lastOp.key) \in DOMAIN lastOp.pre
    /\ lastOp.at = lastOp.pre[str_lower(lastOp.key)].expiry
    /\ lastOp.key # str_lower(lastOp.key)
    /\ lastOp.ret = None
    /\ str_lower(lastOp.key) \notin DOMAIN cache

(* C3 as stated: after set(k, v1) then set(k, v2), v1 # v2, every later    *)
(* get(k) returns v2, whatever time has elapsed.                           *)
C3_AlwaysSecondValue ==
    (/\ lastOp.op = "get"
     /\ HasSet(lastOp.key)
     /\ LastSetOf(lastOp.key).prev # None
     /\ LastSetOf(lastOp.key).prev # Some(LastSetOf(lastOp.key).val))
    => lastOp.ret = Some(LastSetOf(lastOp.key).val)

(* C3 amended: after set(k, v1) then set(k, v2), v1 # v2, a later get(k)   *)
(* with no further set under k returns v2 when the clock is strictly       *)
(* before the second write's expiry and None otherwise; it never returns   *)
(* v1.                                                                     *)
C3_SecondValueOrAbsent ==
    (/\ lastOp.op = "get"
     /\ HasSet(lastOp.key)
     /\ LastSetOf(lastOp.key).prev # None
     /\ LastSetOf(lastOp.key).prev # Some(LastSetOf(lastOp.key).val))
    => /\ lastOp.ret = IF lastOp.at < LastSetOf(lastOp.key).at + ttl
                       THEN Some(LastSetOf(lastOp.key).val)
                       ELSE None
       /\ lastOp.ret # LastSetOf(lastOp.key).prev

C3_Witness ==
    /\ lastOp.op = "get"
    /\ HasSet(lastOp.key)
    /\ LastSetOf(lastOp.key).prev # None
    /\ LastSetOf(lastOp.key).prev # Some(LastSetOf(lastOp.key).val)
    /\ LastSetOf(lastOp.key).at > 0
    /\ lastOp.at > LastSetOf(lastOp.key).at
    /\ lastOp.ret = Some(LastSetOf(lastOp.key).val)

(* C4: every key of the store is in lower case, no two keys of the store   *)
(* are equal up to letter case, and every entry's expiry is the clock      *)
(* reading of the most recent set for its key plus ttl.                    *)
C4_NormalizedKeysAndExpiry ==
    /\ \A k \in DOMAIN cache :
          /\ k = str_lower(k)
          /\ HasSet(k)
          /\ cache[k].expiry = LastSetOf(k).at + ttl
          /\ cache[k].data = LastSetOf(k).val
    /\ \A k1, k2 \in DOMAIN cache : SameUpToCase(k1, k2) => k1 = k2

C4_Witness ==
    /\ Cardinality(DOMAIN cache) = 2
    /\ ttl > 0
    /\ now > 0
    /\ \E k \in DOMAIN cache :
          /\ LastSetOf(k).key # k
          /\ LastSetOf(k).prev # None
          /\ LastSetOf(k).at > 0
          /\ cache[k].expiry = LastSetOf(k).at + ttl

(* C5: get never refreshes.  A get that hits leaves the whole store as it  *)
(* was; any get leaves every entry under another key as it was and adds    *)
(* none; a hit happens only before the expiry fixed at the last set.       *)
C5_GetDoesNotRefresh ==
    lastOp.op = "get" =>
        /\ lastOp.ret # None => cache = lastOp.pre
        /\ DOMAIN cache \subseteq DOMAIN lastOp.pre
        /\ \A k \in DOMAIN lastOp.pre :
              k # str_lower(lastOp.key) =>
                  (k \in DOMAIN cache /\ cache[k] = lastOp.pre[k])
        /\ \A k \in DOMAIN cache : cache[k] = lastOp.pre[k]
        /\ lastOp.ret # None =>
              (HasSet(lastOp.key) /\ lastOp.at < LastSetOf(lastOp.key).at + ttl)

C5_Witness ==
    /\ lastOp.op = "get"
    /\ lastOp.ret # None
    /\ Cardinality(DOMAIN lastOp.pre) = 2
    /\ cache = lastOp.pre
    /\ lastOp.at > LastSetOf(lastOp.key).at

----------------------------------------------------------------------------
(* APIErrorHandler *)

ERROR_CODES ==
    (200 :> "Success") @@
    (400 :> "Bad Request - Invalid request parameters") @@
    (401 :> "Unauthorized - Invalid API key") @@
    (403 :> "Forbidden - API key blocked") @@
    (404 :> "Not Found - City not found") @@
    (429 :> "Too Many Requests - Rate limit exceeded") @@
    (500 :> "Internal Server Error - Server error") @@
    (502 :> "Bad Gateway - Server temporarily unavailable") @@
    (503 :> "Service Unavailable - Service temporarily unavailable")

(* A formatted string is a sequence of pieces: literal text, a number in   *)
(* decimal, or the characters of a JSON string.                            *)
Lit(s) == [k |-> "lit", lit |-> s, num |-> 0, chars |-> <<>>]
Num(n) == [k |-> "num", lit |-> "", num |-> n, chars |-> <<>>]
Chars(cs) == [k |-> "chars", lit |-> "", num |-> 0, chars |-> cs]

(* JSON values as json.loads builds them *)
JObject(fields) == [t |-> "object", fields |-> fields]
JArray(items) == [t |-> "array", items |-> items]
JString(cs) == [t |-> "string", chars |-> cs]
JNumber(n) == [t |-> "number", num |-> n]
JNull == [t |-> "null"]
JBool(b) == [t |-> "bool", b |-> b]

MESSAGE == <<"m","e","s","s","a","g","e">>
INVALID_API_KEY == <<"I","n","v","a","l","i","d"," ","A","P","I"," ","k","e","y">>

(* The response bodies considered, as texts *)
Bodies ==
    { "",
      "{\"message\":\"Invalid API key\"}",
      "{\"message\":404}",
      "{\"message\":null}",
      "{\"cod\":\"404\"}",
      "[]",
      "[\"message\"]",
      "123",
      "\"a message\"",
      "\"ok\"",
      "null",
      "true",
      "<html>",
      "{\"message\":",
      "{\"name\":\"London\"}" }

Parsed(v) == [ok |-> TRUE, val |-> v]
JSONDecodeError == [ok |-> FALSE, val |-> JNull]

(* json.loads on the texts of Bodies *)
json_loads(text) ==
    CASE text = "{\"message\":\"Invalid API key\"}" ->
            Parsed(JObject([message |-> JString(INVALID_API_KEY)]))
      [] text = "{\"message\":404}" ->
            Parsed(JObject([message |-> JNumber(404)]))
      [] text = "{\"message\":null}" ->
            Parsed(JObject([message |-> JNull]))
      [] text = "{\"cod\":\"404\"}" ->
            Parsed(JObject([cod |-> JString(<<"4","0","4">>)]))
      [] text = "{\"name\":\"London\"}" ->
            Parsed(JObject([name |-> JString(<<"L","o","n","d","o","n">>),
                            sys |-> JNull, main |-> JNull, weather |-> JNull,
                            wind |-> JNull, coord |-> JNull]))
      [] text = "[]" -> Parsed(JArray(<<>>))
      [] text = "[\"message\"]" -> Parsed(JArray(<<JString(MESSAGE)>>))
      [] text = "123" -> Parsed(JNumber(123))
      [] text = "\"a message\"" -> Parsed(JString(<<"a"," ">> \o MESSAGE))
      [] text = "\"ok\"" -> Parsed(JString(<<"o","k">>))
      [] text = "null" -> Parsed(JNull)
      [] text = "true" -> Parsed(JBool(TRUE))
      [] OTHER -> JSONDecodeError

IsSubstring(p, s) ==
    \E i \in 0..(Len(s) - Len(p)) : SubSeq(s, i + 1, i + Len(p)) = p

(* the outcome of   'message' in data   *)
py_contains_message(data) ==
    CASE data.t = "object" ->
            [exc |-> "", val |-> "message" \in DOMAIN data.fields]
      [] data.t = "array" ->
            [exc |-> "",
             val |-> \E i \in 1..Len(data.items) :
                        /\ data.items[i].t = "string"
                        /\ data.items[i].chars = MESSAGE]
      [] data.t = "string" ->
            [exc |-> "", val |-> IsSubstring(MESSAGE, data.chars)]
      [] OTHER -> [exc |-> "TypeError", val |-> FALSE]

(* the outcome of   data['message']   once  'message' in data  is true *)
py_getitem_message(data) ==
    IF data.t = "object"
    THEN [exc |-> "", val |-> data.fields["message"]]
    ELSE [exc |-> "TypeError", val |-> JNull]

(* a JSON value inside an f-string *)
py_format(v) ==
    CASE v.t = "string" -> <<Chars(v.chars)>>
      [] v.t = "number" -> <<Num(v.num)>>
      [] v.t = "null" -> <<Lit("None")>>
      [] v.t = "bool" -> <<Lit(IF v.b THEN "True" ELSE "False")>>
      [] OTHER -> <<Lit("<repr>")>>

base_message(status_code) ==
    IF status_code \in DOMAIN ERROR_CODES
    THEN <<Lit(ERROR_CODES[status_code])>>
    ELSE <<Lit("Unknown error (Code: "), Num(status_code), Lit(")")>>

Returned(msg) == [exc |-> "", msg |-> msg]
Raised(e) == [exc |-> e, msg |-> <<>>]

get_error_message(status_code, response_text) ==
    IF response_text = ""
    THEN Returned(base_message(status_code))
    ELSE IF ~json_loads(response_text).ok
    THEN Returned(base_message(status_code))
    ELSE LET data == json_loads(response_text).val IN
         IF py_contains_message(data).exc # ""
         THEN Raised(py_contains_message(data).exc)
         ELSE IF py_contains_message(data).val
         THEN IF py_getitem_message(data).exc # ""
              THEN Raised(py_getitem_message(data).exc)
              ELSE Returned(base_message(status_code) \o <<Lit(": ")>>
                            \o py_format(py_getitem_message(data).val))
         ELSE Returned(base_message(status_code))

----------------------------------------------------------------------------
(* get_error_message applied to one status code and one body. *)

StatusCodes == (DOMAIN ERROR_CODES) \cup {418}

IdleCache ==
    /\ now = 0
    /\ ttl = 0
    /\ cache = EmptyDict
    /\ lastSet = EmptyDict
    /\ lastOp = NoOp

InitErr ==
    /\ errIn \in [status : StatusCodes, text : Bodies]
    /\ errOut = None
    /\ IdleCache /\ IdleApi /\ IdleApp

Classify ==
    /\ errOut = None
    /\ errOut' = get_error_message(errIn.status, errIn.text)
    /\ UNCHANGED errIn
    /\ UNCHANGED <<cacheVars, apiVars, appVars>>

NextErr == Classify

SpecErr == InitErr /\ [][NextErr]_vars

(* the body parses as a JSON object that has a message field *)
BodyHasMessage(text) ==
    /\ text # ""
    /\ json_loads(text).ok
    /\ json_loads(text).val.t = "object"
    /\ "message" \in DOMAIN json_loads(text).val.fields

(* C6: get_error_message never raises; its result is the base message      *)
(* (the table entry, or the unknown-error text containing the code)        *)
(* followed by the body's message when the body parses to an object with   *)
(* a message field, and the base message alone for every other body.       *)
C6_ClassificationTotal ==
    errOut # None =>
        /\ errOut.exc = ""
        /\ errOut.msg =
              IF BodyHasMessage(errIn.text)
              THEN base_message(errIn.status) \o <<Lit(": ")>>
                   \o py_format(json_loads(errIn.text).val.fields["message"])
              ELSE base_message(errIn.status)

(* the cases of the claim that the code does satisfy *)
ErrDocumentedExamples ==
    errOut # None =>
        /\ (errIn.status = 404 /\ errIn.text = "")
              => errOut = Returned(<<Lit("Not Found - City not found")>>)
        /\ (errIn.status = 401
            /\ errIn.text = "{\"message\":\"Invalid API key\"}")
              => errOut = Returned(<<Lit("Unauthorized - Invalid API key"),
                                     Lit(": "), Chars(INVALID_API_KEY)>>)
        /\ (errIn.status = 418 /\ errOut.exc = "")
              => \E i \in 1..Len(errOut.msg) : errOut.msg[i] = Num(418)
        /\ ~json_loads(errIn.text).ok
              => errOut = Returned(base_message(errIn.status))

----------------------------------------------------------------------------
(* WeatherAPI *)

DefaultTtlMinutes == 30

(* Bounds of the clock of the wrapper: minutes, advancing in steps *)
ClockStepMinutes == 10
ApiMaxNow == 30

UnitsSet == {"metric", "imperial", "kelvin"}

(* What session.get yields: a response, or a transport exception *)
Response(status, text) == [kind |-> "response", status |-> status, text |-> text]
TransportError(e) == [kind |-> e, status |-> 0, text |-> ""]

(* The dict built from a 200 body: body is the text it was parsed from,    *)
(* units tags the request the upstream answered, from_cache is the key the *)
(* wrapper adds, retrieved_at the key the worker adds.                     *)
Payload(body, units, flag) ==
    [body |-> body, units |-> units, from_cache |-> flag,
     retrieved_at |-> None]

Result(data) == [exc |-> "", msg |-> <<>>, data |-> data]
Failure(e, msg) == [exc |-> e, msg |-> msg, data |-> None]

WeatherAPI_init == WeatherCache_init(DefaultTtlMinutes)

(* get_weather whose lookup also requires the units of the stored payload  *)
(* to be the units asked for                                               *)
WeatherAPI_get_weather_perunits(c, life, city, units, t0, resp, t1) ==
    LET looked == WeatherCache_get(c, city, t0)
        hit == /\ looked.ret # None
               /\ looked.ret.v.units = units
    IN
    IF hit
    THEN [cache |-> DictPut(looked.cache, str_lower(city),
                            [data |-> [looked.ret.v EXCEPT !.from_cache = TRUE],
                             expiry |-> looked.cache[str_lower(city)].expiry]),
          looked |-> looked.cache,
          http |-> FALSE,
          out |-> Result([looked.ret.v EXCEPT !.from_cache = TRUE])]
    ELSE IF resp.kind # "response"
    THEN [cache |-> looked.cache, looked |-> looked.cache, http |-> TRUE,
          out |-> Failure(resp.kind, <<>>)]
    ELSE IF resp.status = 200
    THEN IF ~json_loads(resp.text).ok
         THEN [cache |-> looked.cache, looked |-> looked.cache, http |-> TRUE,
               out |-> Failure("JSONDecodeError", <<>>)]
         ELSE IF json_loads(resp.text).val.t # "object"
         THEN [cache |-> looked.cache, looked |-> looked.cache, http |-> TRUE,
               out |-> Failure("TypeError", <<>>)]
         ELSE LET data == Payload(resp.text, units, FALSE)
              IN [cache |-> WeatherCache_set(looked.cache, life, city, data, t1),
                  looked |-> looked.cache,
                  http |-> TRUE,
                  out |-> Result(data)]
    ELSE LET error_msg == get_error_message(resp.status, resp.text) IN
         IF error_msg.exc # ""
         THEN [cache |-> looked.cache, looked |-> looked.cache, http |-> TRUE,
               out |-> Failure(error_msg.exc, <<>>)]
         ELSE [cache |-> looked.cache, looked |-> looked.cache, http |-> TRUE,
               out |-> Failure("HTTPError", error_msg.msg)]

(* get_weather(city, units) on a wrapper whose store is c: t0 is the clock *)
(* reading of the lookup, resp what the upstream yields if asked, t1 the   *)
(* clock reading of the write.  looked is the store right after the        *)
(* lookup, http tells whether the upstream was asked.                      *)
WeatherAPI_get_weather(c, life, city, units, t0, resp, t1) ==
    LET looked == WeatherCache_get(c, city, t0)
        (* a stored dict always holds the from_cache key, so it is truthy *)
        hit == looked.ret # None
    IN
    IF hit
    THEN [cache |-> DictPut(looked.cache, str_lower(city),
                            [data |-> [looked.ret.v EXCEPT !.from_cache = TRUE],
                             expiry |-> looked.cache[str_lower(city)].expiry]),
          looked |-> looked.cache,
          http |-> FALSE,
          out |-> Result([looked.ret.v EXCEPT !.from_cache = TRUE])]
    ELSE IF resp.kind # "response"
    THEN [cache |-> looked.cache, looked |-> looked.cache, http |-> TRUE,
          out |-> Failure(resp.kind, <<>>)]
    ELSE IF resp.status = 200
    THEN IF ~json_loads(resp.text).ok
         THEN [cache |-> looked.cache, looked |-> looked.cache, http |-> TRUE,
               out |-> Failure("JSONDecodeError", <<>>)]
         ELSE IF json_loads(resp.text).val.t # "object"
         THEN [cache |-> looked.cache, looked |-> looked.cache, http |-> TRUE,
               out |-> Failure("TypeError", <<>>)]
         ELSE LET data == Payload(resp.text, units, FALSE)
              IN [cache |-> WeatherCache_set(looked.cache, life, city, data, t1),
                  looked |-> looked.cache,
                  http |-> TRUE,
                  out |-> Result(data)]
    ELSE LET error_msg == get_error_message(resp.status, resp.text) IN
         IF error_msg.exc # ""
         THEN [cache |-> looked.cache, looked |-> looked.cache, http |-> TRUE,
               out |-> Failure(error_msg.exc, <<>>)]
         ELSE [cache |-> looked.cache, looked |-> looked.cache, http |-> TRUE,
               out |-> Failure("HTTPError", error_msg.msg)]

----------------------------------------------------------------------------
(* One WeatherAPI instance called repeatedly while time passes. *)

ApiCities == { <<"L","o">>, <<"l","o">>, <<"N","y">> }

ApiUnits == {"metric", "imperial"}

ApiResponses ==
    { Response(200, "{\"name\":\"London\"}"),
      Response(200, "<html>"),
      Response(404, "{\"message\":\"Invalid API key\"}"),
      Response(404, "123"),
      TransportError("ConnectionError") }

NoResponse == TransportError("")

InitApi ==
    /\ now = 0
    /\ ttl = WeatherAPI_init.ttl
    /\ cache = WeatherAPI_init.cache
    /\ lastSet = EmptyDict
    /\ lastOp = NoOp
    /\ apiCall = None
    /\ IdleErr /\ IdleApp

ApiGetWeather(city, units, resp, latency) ==
    LET r == WeatherAPI_get_weather(cache, ttl, city, units, now, resp,
                                    now + latency)
    IN
    /\ now + latency <= ApiMaxNow
    /\ r.http \/ latency = 0
    /\ cache' = r.cache
    /\ now' = IF r.http THEN now + latency ELSE now
    /\ apiCall' = [city |-> city, units |-> units,
                   resp |-> IF r.http THEN resp ELSE NoResponse,
                   t0 |-> now, t1 |-> now + latency,
                   pre |-> cache, looked |-> r.looked,
                   http |-> r.http, out |-> r.out]
    /\ UNCHANGED <<ttl, lastSet, lastOp>>
    /\ UNCHANGED <<errVars, appVars>>

ApiTick ==
    /\ now + ClockStepMinutes <= ApiMaxNow
    /\ now' = now + ClockStepMinutes
    /\ UNCHANGED <<ttl, cache, lastSet, lastOp, apiCall>>
    /\ UNCHANGED <<errVars, appVars>>

NextApi ==
    \/ \E city \in ApiCities, units \in ApiUnits, resp \in ApiResponses,
          latency \in {0, ClockStepMinutes} :
          ApiGetWeather(city, units, resp, latency)
    \/ ApiTick

SpecApi == InitApi /\ [][NextApi]_vars

(* the body parses as a JSON object *)
BodyHasObject(text) ==
    /\ json_loads(text).ok
    /\ json_loads(text).val.t = "object"

(* C9: a call that misses the cache and receives a status other than 200   *)
(* raises HTTPError with the classified message and leaves the store as    *)
(* it was after the lookup; on status 200 (with the JSON object the        *)
(* upstream is specified to send) exactly one entry, under the lower-cased *)
(* city, is written with expiry now + ttl and the returned payload has     *)
(* from_cache = false.                                                     *)
C9_WriteOnlyOn200 ==
    (apiCall # None /\ apiCall.http /\ apiCall.resp.kind = "response") =>
        /\ apiCall.resp.status # 200 =>
              /\ apiCall.out.exc = "HTTPError"
              /\ Returned(apiCall.out.msg) =
                    get_error_message(apiCall.resp.status, apiCall.resp.text)
              /\ cache = apiCall.looked
        /\ (apiCall.resp.status = 200 /\ BodyHasObject(apiCall.resp.text)) =>
              /\ apiCall.out.exc = ""
              /\ apiCall.out.data.from_cache = FALSE
              /\ DOMAIN cache = DOMAIN apiCall.looked
                                   \cup {str_lower(apiCall.city)}
              /\ cache[str_lower(apiCall.city)] =
                    [data |-> apiCall.out.data, expiry |-> apiCall.t1 + ttl]
              /\ \A k \in DOMAIN apiCall.looked :
                    k # str_lower(apiCall.city) => cache[k] = apiCall.looked[k]

(* what the code does guarantee: the store changes only on a 200 answer    *)
ApiStoreChangesOnlyOn200 ==
    (apiCall # None /\ apiCall.http /\ cache # apiCall.looked) =>
        /\ apiCall.resp.kind = "response"
        /\ apiCall.resp.status = 200
        /\ apiCall.out.exc = ""

(* C10: the cache is keyed by the city alone.  When the store holds, under *)
(* a key equal to c' up to letter case, a payload fetched with u1 that has *)
(* not expired, get_weather(c', u2) asks nothing of the upstream and       *)
(* returns that payload marked from_cache = true, for every u2.            *)
C10_UnitsNotPartOfKey ==
    apiCall # None =>
        \A k \in DOMAIN apiCall.pre :
            (/\ SameUpToCase(k, apiCall.city)
             /\ apiCall.t0 < apiCall.pre[k].expiry)
            => /\ ~apiCall.http
               /\ apiCall.out.exc = ""
               /\ apiCall.out.data =
                     [apiCall.pre[k].data EXCEPT !.from_cache = TRUE]
               /\ apiCall.out.data.units = apiCall.pre[k].data.units
               /\ cache[k].data = apiCall.out.data
               /\ cache[k].expiry = apiCall.pre[k].expiry

C10_Witness ==
    /\ apiCall # None
    /\ ~apiCall.http
    /\ apiCall.city # str_lower(apiCall.city)
    /\ apiCall.t0 > 0
    /\ apiCall.out.exc = ""
    /\ apiCall.out.data.units # apiCall.units
    /\ apiCall.out.data.from_cache
    /\ ~apiCall.pre[str_lower(apiCall.city)].data.from_cache

----------------------------------------------------------------------------
(* EnhancedWeatherWorker and EnhancedWeatherApp *)

(* Bounds of the application model *)
MaxRequests == 2
MaxThreadCount == 1

api_key == "YOUR_API_key"

UnitsItems == {"metric (C)", "imperial (F)", "kelvin (K)"}

units_map ==
    ("metric (C)" :> "metric") @@ ("imperial (F)" :> "imperial") @@
    ("kelvin (K)" :> "kelvin")

InputTexts == { <<" ">>, <<"L">>, <<" ","L","o"," ">>, <<"l","o">> }

RECURSIVE py_lstrip(_)
py_lstrip(s) ==
    IF s # <<>> /\ Head(s) = " " THEN py_lstrip(Tail(s)) ELSE s

RECURSIVE py_rstrip(_)
py_rstrip(s) ==
    IF s # <<>> /\ s[Len(s)] = " "
    THEN py_rstrip(SubSeq(s, 1, Len(s) - 1))
    ELSE s

py_strip(s) == py_rstrip(py_lstrip(s))

(* EnhancedWeatherWorker.__init__: every worker builds a WeatherAPI of its *)
(* own, hence a store of its own.  prior notes the requests that had       *)
(* completed successfully when this one was issued.                        *)
EnhancedWeatherWorker_init(city, units, state, prior) ==
    [city |-> city, units |-> units, state |-> state,
     weather_api |-> WeatherAPI_init, prior |-> prior]

(* the call of run() into the worker's own wrapper *)
EnhancedWeatherWorker_run(w, t0, resp, t1) ==
    WeatherAPI_get_weather(w.weather_api.cache, w.weather_api.ttl,
                           w.city, w.units, t0, resp, t1)

(* the text run() hands to signals.error for an exception *)
error_text(out) ==
    CASE out.exc = "Timeout" ->
            <<Lit("Request timed out. Please check your internet connection and try again.")>>
      [] out.exc = "ConnectionError" ->
            <<Lit("Unable to connect to weather service. Please check your internet connection.")>>
      [] out.exc = "HTTPError" -> out.msg
      [] OTHER -> <<Lit("Unexpected error: "), Lit(out.exc)>>

Signal(sig, w, data, msg) == [sig |-> sig, w |-> w, data |-> data, msg |-> msg]

Running == {w \in 1..Len(workers) : workers[w].state = "running"}
Queued == {w \in 1..Len(workers) : workers[w].state = "queued"}

(* workers handed to the thread pool whose finished signal is not yet out *)
InFlight == Running \cup Queued

InitApp ==
    /\ now = 0
    /\ ttl = DefaultTtlMinutes
    /\ cache = EmptyDict
    /\ lastSet = EmptyDict
    /\ lastOp = NoOp
    /\ IdleErr /\ IdleApi /\ IdleApp

EditCity(text) ==
    /\ text # city_input
    /\ city_input' = text
    /\ UNCHANGED <<units_combo, search_button, current_worker, workers,
                   guiQueue, succeeded, appEvt>>
    /\ UNCHANGED <<cacheVars, errVars, apiVars>>

SelectUnits(item) ==
    /\ item # units_combo
    /\ units_combo' = item
    /\ UNCHANGED <<city_input, search_button, current_worker, workers,
                   guiQueue, succeeded, appEvt>>
    /\ UNCHANGED <<cacheVars, errVars, apiVars>>

(* EnhancedWeatherApp.get_weather, the slot of both user events *)
EnhancedWeatherApp_get_weather ==
    LET city == py_strip(city_input) IN
    /\ Len(workers) < MaxRequests
    /\ IF city = <<>>
       THEN /\ appEvt' = Evt("warning: Please enter a city name.", 0, None)
            /\ UNCHANGED <<search_button, current_worker, workers>>
       ELSE IF Len(city) < 2
       THEN /\ appEvt' = Evt("warning: City name must be at least 2 characters long.", 0, None)
            /\ UNCHANGED <<search_button, current_worker, workers>>
       ELSE IF api_key = "" \/ api_key = "YOUR_Alternate_API_key"
       THEN /\ appEvt' = Evt("critical: Please set your OpenWeatherMap API key in the code.", 0, None)
            /\ UNCHANGED <<search_button, current_worker, workers>>
       ELSE /\ search_button' = FALSE
            /\ current_worker' = Len(workers) + 1
            /\ workers' = Append(workers,
                  EnhancedWeatherWorker_init(city, units_map[units_combo],
                      IF Cardinality(Running) < MaxThreadCount
                      THEN "running" ELSE "queued",
                      succeeded))
            /\ appEvt' = Evt("started", Len(workers) + 1, None)
    /\ UNCHANGED <<city_input, units_combo, guiQueue, succeeded>>
    /\ UNCHANGED <<cacheVars, errVars, apiVars>>

(* search_button.clicked: a disabled button emits nothing *)
SearchClicked ==
    /\ search_button
    /\ EnhancedWeatherApp_get_weather

(* city_input.returnPressed: the line edit is never disabled *)
ReturnPressed == EnhancedWeatherApp_get_weather

(* QThreadPool: a queued runnable starts when a thread is free *)
PoolStartQueued ==
    /\ Queued # {}
    /\ Cardinality(Running) < MaxThreadCount
    /\ LET w == CHOOSE x \in Queued : \A y \in Queued : x <= y IN
       workers' = [workers EXCEPT ![w].state = "running"]
    /\ UNCHANGED <<city_input, units_combo, search_button, current_worker,
                   guiQueue, succeeded, appEvt>>
    /\ UNCHANGED <<cacheVars, errVars, apiVars>>

AppResponses ==
    { Response(200, "{\"name\":\"London\"}"),
      Response(404, "{\"message\":\"Invalid API key\"}"),
      Response(404, "123"),
      TransportError("Timeout") }

(* EnhancedWeatherWorker.run on a pool thread; the signals are queued to   *)
(* the GUI thread.  The progress and status_update signals only drive the  *)
(* progress bar and the status label and are left out.                     *)
WorkerRun(w, resp, latency) ==
    LET r == EnhancedWeatherWorker_run(workers[w], now, resp, now + latency)
        stamped == [r.out.data EXCEPT !.retrieved_at = Some(now + latency)]
        key == str_lower(workers[w].city)
    IN
    /\ workers[w].state = "running"
    /\ now + latency <= ApiMaxNow
    /\ r.http \/ latency = 0
    /\ now' = now + latency
    /\ workers' =
          [workers EXCEPT
             ![w].state = "finished",
             ![w].weather_api.cache =
                 IF r.out.exc = ""
                 THEN DictPut(r.cache, key,
                              [data |-> stamped, expiry |-> r.cache[key].expiry])
                 ELSE r.cache]
    /\ guiQueue' =
          guiQueue \o
          << IF r.out.exc = ""
             THEN Signal("result", w, stamped, <<>>)
             ELSE Signal("error", w, None, error_text(r.out)),
             Signal("finished", w, None, <<>>) >>
    /\ succeeded' =
          IF r.out.exc = ""
          THEN DictPut(succeeded, str_upper(workers[w].city),
                       [key |-> workers[w].city,
                        expiry |-> r.cache[key].expiry])
          ELSE succeeded
    /\ appEvt' = Evt("run", w,
                     [city |-> workers[w].city, units |-> workers[w].units,
                      t0 |-> now, http |-> r.http, out |-> r.out,
                      prior |-> workers[w].prior])
    /\ UNCHANGED <<city_input, units_combo, search_button, current_worker>>
    /\ UNCHANGED <<ttl, cache, lastSet, lastOp, errVars, apiVars>>

TopLevelKeys == {"name", "sys", "main", "weather", "wind", "coord"}

(* handle_weather_result: a payload lacking a key ends in handle_error *)
handle_weather_result ==
    /\ guiQueue # <<>>
    /\ Head(guiQueue).sig = "result"
    /\ guiQueue' = Tail(guiQueue)
    /\ appEvt' =
          Evt(IF TopLevelKeys \subseteq
                   DOMAIN json_loads(Head(guiQueue).data.body).val.fields
              THEN "display: weather"
              ELSE "display: error parsing weather data",
              Head(guiQueue).w, None)
    /\ UNCHANGED <<city_input, units_combo, search_button, current_worker,
                   workers, succeeded>>
    /\ UNCHANGED <<cacheVars, errVars, apiVars>>

handle_error ==
    /\ guiQueue # <<>>
    /\ Head(guiQueue).sig = "error"
    /\ guiQueue' = Tail(guiQueue)
    /\ appEvt' = Evt("display: error", Head(guiQueue).w, None)
    /\ UNCHANGED <<city_input, units_combo, search_button, current_worker,
                   workers, succeeded>>
    /\ UNCHANGED <<cacheVars, errVars, apiVars>>

handle_finished ==
    /\ guiQueue # <<>>
    /\ Head(guiQueue).sig = "finished"
    /\ guiQueue' = Tail(guiQueue)
    /\ search_button' = TRUE
    /\ appEvt' = Evt("finished", Head(guiQueue).w, None)
    /\ UNCHANGED <<city_input, units_combo, current_worker, workers,
                   succeeded>>
    /\ UNCHANGED <<cacheVars, errVars, apiVars>>

NextApp ==
    \/ \E text \in InputTexts : EditCity(text)
    \/ \E item \in UnitsItems : SelectUnits(item)
    \/ SearchClicked
    \/ ReturnPressed
    \/ PoolStartQueued
    \/ \E w \in 1..Len(workers), resp \in AppResponses,
          latency \in {0, ClockStepMinutes} : WorkerRun(w, resp, latency)
    \/ handle_weather_result
    \/ handle_error
    \/ handle_finished
    \/ ApiTick

SpecApp == InitApp /\ [][NextApp]_vars

(* C7: at most one weather fetch is in flight at any time. *)
C7_SingleFetchInFlight == Cardinality(InFlight) <= 1

(* C8: once a request for a city has completed successfully, a later       *)
(* request for the same city (up to letter case) issued before that        *)
(* entry's expiry is answered from the cache: from_cache = true and no     *)
(* upstream request.                                                       *)
C8_ProcessLifetimeCache ==
    appEvt.kind = "run" =>
        \A cls \in DOMAIN appEvt.call.prior :
            (/\ SameUpToCase(appEvt.call.prior[cls].key, appEvt.call.city)
             /\ appEvt.call.t0 < appEvt.call.prior[cls].expiry)
            => /\ ~appEvt.call.http
               /\ appEvt.call.out.exc = ""
               /\ appEvt.call.out.data.from_cache

====
